---- MODULE Spec2Model ----
(***************************************************************************)
(* Model of src/estate.py: the RateLimiter (two rolling windows of call    *)
(* timestamps behind one threading.Lock) and the part of                   *)
(* SriLankaTourismAgent that drives it (query_groq and                     *)
(* run_comprehensive_analysis).  Time is counted in whole seconds.         *)
(***************************************************************************)
EXTENDS Integers, Sequences, FiniteSets, TLC

\* ---------------------------------------------------------------- bounds
NumThreads == 2
MaxRPM == 2
MaxRPD == 3
MaxTicks == 1
MaxLocations == 1
MaxEvents == 3
BurstRPM == 2
BurstRPD == 10
LongStayHours == 23

\* ------------------------------------------------------ program constants
MinuteSecs == 60
BufferSecs == 1
DaySecs == 86400
CooldownSecs == 60
EstimateBase == 3
EstimateExtra == 2

\* response.status_code as query_groq tells it apart; "raise" stands for
\* requests.post (or the decoding of its answer) raising
HttpOk == "200"
HttpTooMany == "429"
HttpOther == "other"
PostRaises == "raise"
NoResponse == "none"

Threads == 1..NumThreads
NoThread == 0
Orch == 1
TickSizes == {BufferSecs, MinuteSecs + BufferSecs, DaySecs + BufferSecs}

VARIABLES
    clock,                \* datetime.now(), in seconds
    ticks,                \* number of clock advances made by the environment
    requests_per_minute,
    requests_per_day,
    minute_requests,      \* deque of timestamps, oldest first
    daily_requests,       \* deque of timestamps, oldest first
    lock,                 \* holder of self.lock, or NoThread
    pc,                   \* per thread: position with respect to the governor
    now,                  \* per thread: the local `now` of wait_if_needed
    wakeAt,               \* per thread: instant at which time.sleep may return
    seenLen,              \* per thread: window lengths seen by the check
    ret,                  \* history: the most recent return of a governor call
    lastGrant,            \* history: the most recent permit granted; lag is the
                          \* time from the recorded timestamp to the return
                          \* and afterRefusal tells that the governor's
                          \* return before it was a quota-exhausted raise
    completions,          \* history: return instants of the grants of the last minute
    opc,                  \* run_comprehensive_analysis: position
    nloc,                 \* len(locations)
    step,                 \* index of the plan step in progress
    qpc,                  \* query_groq: position
    depth,                \* query_groq: recursion depth of the current call
    cooldownUntil,        \* query_groq: end of time.sleep(60)
    response,             \* query_groq: what the current invocation's post gave
    results,              \* outcome stored in each finished step's slot
    startQuota,           \* `quota` of run_comprehensive_analysis
    actual_requests_used,
    planPermits,          \* history: permits granted to the plan
    planRequests,         \* history: requests posted by the plan
    callRequests,         \* history: requests posted by the latest call that posted one
    exhaustedAt,          \* history: step at which a call first failed on quota
    attemptsAfter,        \* history: acquisitions made by the plan after that failure
    events,               \* number of events the plan's environment has produced
    othersDuring          \* history: another caller used the governor during the plan

gvars == <<clock, ticks, requests_per_minute, requests_per_day, minute_requests,
           daily_requests, lock, pc, now, wakeAt, seenLen, ret, lastGrant,
           completions>>
pvars == <<opc, nloc, step, qpc, depth, cooldownUntil, response, results, startQuota,
           actual_requests_used, planPermits, planRequests, callRequests,
           exhaustedAt, attemptsAfter, events,
           othersDuring>>
vars == <<gvars, pvars>>

Max(a, b) == IF a >= b THEN a ELSE b

\* ------------------------------------------------------------ RateLimiter

\* while q and q[0] < cutoff: q.popleft()
RECURSIVE PruneBefore(_, _)
PruneBefore(q, cutoff) ==
    IF q # <<>> /\ Head(q) < cutoff THEN PruneBefore(Tail(q), cutoff) ELSE q

PruneMinuteInclusive(q, t) == PruneBefore(q, t - MinuteSecs + 1)
PruneMinute(q, t) == PruneBefore(q, t - MinuteSecs)
PruneDayNever(q, t) == q
PruneDayAsMinute(q, t) == PruneBefore(q, t - MinuteSecs)
PruneDay(q, t) == PruneBefore(q, t - DaySecs)

DailyLimitReachedOffByOne(dq) == Len(dq) > requests_per_day
DailyLimitReached(dq) == Len(dq) >= requests_per_day

MinuteLimitReached(mq) == Len(mq) >= requests_per_minute

WaitTimeNoBuffer(mq, t) == (Head(mq) + MinuteSecs) - t
\* wait_until - now, with wait_until = oldest_request + 1 min + 1 s
WaitTime(mq, t) == (Head(mq) + MinuteSecs + BufferSecs) - t

LockIgnored(t) == TRUE
LockFree(t) == lock = NoThread

SnapshotLimitsSwapped(mq, dq) ==
    [minute_remaining |-> requests_per_day - Len(mq),
     daily_remaining |-> requests_per_minute - Len(dq),
     minute_used |-> Len(mq),
     daily_used |-> Len(dq)]
Snapshot(mq, dq) ==
    [minute_remaining |-> requests_per_minute - Len(mq),
     daily_remaining |-> requests_per_day - Len(dq),
     minute_used |-> Len(mq),
     daily_used |-> Len(dq)]

NoQuota == [minute_remaining |-> 0, daily_remaining |-> 0,
            minute_used |-> 0, daily_used |-> 0]

NoReturn == [thread |-> NoThread, kind |-> "none", quota |-> NoQuota]

NoGrant == [thread |-> NoThread, lag |-> 0, slept |-> FALSE,
            afterRefusal |-> FALSE,
            minuteBefore |-> 0, minuteAfter |-> 0,
            dayBefore |-> 0, dayAfter |-> 0]

\* the return instants of the grants made less than 60 seconds before the
\* grant returning at t (that one included), oldest first; at most
\* requests_per_minute + 1 of them are kept
RECURSIVE DropOlder(_, _)
DropOlder(cs, t) ==
    IF cs # <<>> /\ t - Head(cs) >= MinuteSecs THEN DropOlder(Tail(cs), t) ELSE cs

Remember(cs, t) ==
    LET all == DropOlder(Append(cs, t), t)
    IN IF Len(all) > requests_per_minute + 1 THEN Tail(all) ELSE all

\* deque.append: the new timestamp goes to the right end
appendleft(q, x) == <<x>> \o q
append(q, x) == Append(q, x)

RecordKeepsLock(t, stamp, mq, dq, slept, mBefore, dBefore) ==
    /\ minute_requests' = append(mq, stamp)
    /\ daily_requests' = append(dq, stamp)
    /\ lock' = lock
    /\ pc' = [pc EXCEPT ![t] = "idle"]
    /\ ret' = [thread |-> t, kind |-> "granted", quota |-> NoQuota]
    /\ lastGrant' = [thread |-> t, lag |-> clock' - stamp, slept |-> slept,
                     afterRefusal |-> ret.kind = "exhausted",
                     minuteBefore |-> mBefore, minuteAfter |-> Len(mq) + 1,
                     dayBefore |-> dBefore, dayAfter |-> Len(dq) + 1]
    /\ completions' = Remember(completions, clock')
\* lines 59-61 and the release of the lock: the permit is granted
Record(t, stamp, mq, dq, slept, mBefore, dBefore) ==
    /\ minute_requests' = append(mq, stamp)
    /\ daily_requests' = append(dq, stamp)
    /\ lock' = NoThread
    /\ pc' = [pc EXCEPT ![t] = "idle"]
    /\ ret' = [thread |-> t, kind |-> "granted", quota |-> NoQuota]
    /\ lastGrant' = [thread |-> t, lag |-> clock' - stamp, slept |-> slept,
                     afterRefusal |-> ret.kind = "exhausted",
                     minuteBefore |-> mBefore, minuteAfter |-> Len(mq) + 1,
                     dayBefore |-> dBefore, dayAfter |-> Len(dq) + 1]
    /\ completions' = Remember(completions, clock')

\* the order of the two checks of lines 44-57, as the position reached
NextPositionMinuteFirst(mq, dq, t) ==
    IF MinuteLimitReached(mq) /\ WaitTime(mq, t) > 0 THEN "sleep"
    ELSE IF DailyLimitReached(dq) THEN "raise"
    ELSE "record"
NextPosition(mq, dq, t) ==
    IF DailyLimitReached(dq) THEN "raise"
    ELSE IF MinuteLimitReached(mq) /\ WaitTime(mq, t) > 0 THEN "sleep"
    ELSE "record"

RefuseRecords(t, mq, dq) ==
    /\ minute_requests' = append(mq, clock)
    /\ daily_requests' = append(dq, clock)
    /\ pc' = [pc EXCEPT ![t] = "idle"]
    /\ ret' = [thread |-> t, kind |-> "exhausted", quota |-> NoQuota]
    /\ UNCHANGED <<lock, now, wakeAt, seenLen, lastGrant, completions, clock>>
\* lines 45-46: the daily limit is reached and wait_if_needed raises, leaving
\* the pruned windows as they are
Refuse(t, mq, dq) ==
    /\ minute_requests' = mq
    /\ daily_requests' = dq
    /\ pc' = [pc EXCEPT ![t] = "idle"]
    /\ ret' = [thread |-> t, kind |-> "exhausted", quota |-> NoQuota]
    /\ UNCHANGED <<lock, now, wakeAt, seenLen, lastGrant, completions, clock>>

\* wait_if_needed, as thread t runs it, from the acquisition of the lock to
\* the raise, to the start of time.sleep, or to the return
Acquire(t) ==
    /\ LockFree(t)
    /\ LET mq == PruneMinute(minute_requests, clock)
           dq == PruneDay(daily_requests, clock)
           pos == NextPosition(mq, dq, clock)
       IN CASE pos = "raise" -> Refuse(t, mq, dq)
            [] pos = "sleep" ->
                 /\ minute_requests' = mq
                 /\ daily_requests' = dq
                 /\ lock' = t
                 /\ pc' = [pc EXCEPT ![t] = "sleep"]
                 /\ now' = [now EXCEPT ![t] = clock]
                 /\ wakeAt' = [wakeAt EXCEPT ![t] = clock + WaitTime(mq, clock)]
                 /\ seenLen' = [seenLen EXCEPT ![t] = <<Len(mq), Len(dq)>>]
                 /\ UNCHANGED <<ret, lastGrant, completions, clock>>
            [] OTHER ->
                 /\ clock' = clock
                 /\ Record(t, clock, mq, dq, FALSE, Len(mq), Len(dq))
                 /\ UNCHANGED <<now, wakeAt, seenLen>>
    /\ UNCHANGED <<ticks, requests_per_minute, requests_per_day>>

\* wait_if_needed from the return of time.sleep to its own return
Resume(t) ==
    /\ pc[t] = "sleep"
    /\ clock' = Max(clock, wakeAt[t])
    /\ Record(t, now[t], minute_requests, daily_requests, TRUE,
              seenLen[t][1], seenLen[t][2])
    /\ now' = [now EXCEPT ![t] = 0]
    /\ wakeAt' = [wakeAt EXCEPT ![t] = 0]
    /\ seenLen' = [seenLen EXCEPT ![t] = <<0, 0>>]
    /\ UNCHANGED <<ticks, requests_per_minute, requests_per_day>>

\* get_remaining_quota, as thread t runs it
TakeSnapshot(t) ==
    /\ LockFree(t)
    /\ LET mq == PruneMinute(minute_requests, clock)
           dq == PruneDay(daily_requests, clock)
       IN /\ minute_requests' = mq
          /\ daily_requests' = dq
          /\ ret' = [thread |-> t, kind |-> "snapshot", quota |-> Snapshot(mq, dq)]
    /\ pc' = [pc EXCEPT ![t] = "idle"]
    /\ UNCHANGED <<clock, ticks, requests_per_minute, requests_per_day, lock, now,
                   wakeAt, seenLen, lastGrant, completions>>

\* a thread calls wait_if_needed or get_remaining_quota and reaches the lock
Call(t, what) ==
    /\ pc[t] = "idle"
    /\ pc' = [pc EXCEPT ![t] = what]
    /\ UNCHANGED <<clock, ticks, requests_per_minute, requests_per_day,
                   minute_requests, daily_requests, lock, now, wakeAt, seenLen,
                   ret, lastGrant, completions>>

CallWait(t) == Call(t, "wantW") /\ UNCHANGED pvars

CallQuota(t) == Call(t, "wantQ") /\ UNCHANGED pvars

wait_if_needed(t) == pc[t] = "wantW" /\ Acquire(t) /\ UNCHANGED pvars

wait_if_needed_resume(t) == Resume(t) /\ UNCHANGED pvars

get_remaining_quota(t) == pc[t] = "wantQ" /\ TakeSnapshot(t) /\ UNCHANGED pvars

\* the clock advances by d seconds
Advance(d) ==
    /\ ticks < MaxTicks
    /\ clock' = clock + d
    /\ ticks' = ticks + 1
    /\ UNCHANGED <<requests_per_minute, requests_per_day, minute_requests,
                   daily_requests, lock, pc, now, wakeAt, seenLen, ret,
                   lastGrant, completions>>

Tick == (\E d \in TickSizes : Advance(d)) /\ UNCHANGED pvars

InitGovernor ==
    /\ clock = 0
    /\ ticks = 0
    /\ minute_requests = <<>>
    /\ daily_requests = <<>>
    /\ lock = NoThread
    /\ pc = [t \in Threads |-> "idle"]
    /\ now = [t \in Threads |-> 0]
    /\ wakeAt = [t \in Threads |-> 0]
    /\ seenLen = [t \in Threads |-> <<0, 0>>]
    /\ ret = NoReturn
    /\ lastGrant = NoGrant
    /\ completions = <<>>

InitPlanVars ==
    /\ opc = "start"
    /\ nloc = 0
    /\ step = 0
    /\ qpc = "none"
    /\ depth = 0
    /\ cooldownUntil = 0
    /\ response = NoResponse
    /\ results = <<>>
    /\ startQuota = NoQuota
    /\ actual_requests_used = 0
    /\ planPermits = 0
    /\ planRequests = 0
    /\ callRequests = 0
    /\ exhaustedAt = 0
    /\ attemptsAfter = 0
    /\ events = 0
    /\ othersDuring = FALSE

Init ==
    /\ requests_per_minute \in 1..MaxRPM
    /\ requests_per_day \in 1..MaxRPD
    /\ InitGovernor
    /\ InitPlanVars

Next ==
    \/ \E t \in Threads : CallWait(t)
    \/ \E t \in Threads : wait_if_needed(t)
    \/ \E t \in Threads : wait_if_needed_resume(t)
    \/ \E t \in Threads : CallQuota(t)
    \/ \E t \in Threads : get_remaining_quota(t)
    \/ Tick

Spec == Init /\ [][Next]_vars

\* fair scheduling: a thread that stays able to take the lock takes it, and
\* time.sleep returns
Fairness ==
    \A t \in Threads :
        /\ WF_vars(wait_if_needed(t))
        /\ WF_vars(get_remaining_quota(t))
        /\ WF_vars(wait_if_needed_resume(t))

\* the callers alone: the clock moves only as their sleeps end
NextLive ==
    \/ \E t \in Threads : CallWait(t)
    \/ \E t \in Threads : wait_if_needed(t)
    \/ \E t \in Threads : wait_if_needed_resume(t)
    \/ \E t \in Threads : CallQuota(t)
    \/ \E t \in Threads : get_remaining_quota(t)

SpecLive == Init /\ [][NextLive]_vars /\ Fairness

\* the governor constructed as RateLimiter(BurstRPM, BurstRPD)
InitBurst ==
    /\ requests_per_minute = BurstRPM
    /\ requests_per_day = BurstRPD
    /\ InitGovernor
    /\ InitPlanVars

SpecBurst == InitBurst /\ [][Next]_vars

\* the clock advances past the minute window, or by LongStayHours hours
LongStay ==
    /\ \E d \in {MinuteSecs + BufferSecs, LongStayHours * 3600} : Advance(d)
    /\ UNCHANGED pvars

NextPrune ==
    \/ \E t \in Threads : CallWait(t)
    \/ \E t \in Threads : wait_if_needed(t)
    \/ \E t \in Threads : wait_if_needed_resume(t)
    \/ \E t \in Threads : CallQuota(t)
    \/ \E t \in Threads : get_remaining_quota(t)
    \/ LongStay

SpecPrune == Init /\ [][NextPrune]_vars

\* --------------------------------------------------- SriLankaTourismAgent

Responses == {HttpOk, HttpTooMany, HttpOther, PostRaises}

\* line 157: the status code on which query_groq sleeps and calls itself
RetryOnAnyStatus(r) == r \in {HttpTooMany, HttpOther}
RetryOn(r) == r = HttpTooMany

\* estimated_requests = 3 + len(locations) + 2
EstimatedRequests(L) == EstimateBase + L + EstimateExtra

PlanStepsComparisonFirst(L) ==
    <<"market_trends", "market_report", "location_comparison">>
    \o [i \in 1..L |-> "location_analysis"]
    \o (IF L > 0 THEN <<"competition_analysis">> ELSE <<>>)
\* the calls of the try block of run_comprehensive_analysis, in order
PlanSteps(L) ==
    <<"market_trends", "market_report">>
    \o [i \in 1..L |-> "location_analysis"]
    \o <<"location_comparison">>
    \o (IF L > 0 THEN <<"competition_analysis">> ELSE <<>>)

InsufficientQuotaNeverAborts(q, L) == q.daily_remaining < 0
InsufficientQuotaNoExtra(q, L) == q.daily_remaining < EstimateBase + L
InsufficientQuota(q, L) == q.daily_remaining < EstimatedRequests(L)

\* query_groq returns `outcome`; the plan stores it in the step's slot and
\* goes on to its next call, or to the final quota check
FinishStep(outcome) ==
    /\ results' = Append(results, outcome)
    /\ depth' = 0
    /\ IF step < Len(PlanSteps(nloc))
       THEN /\ step' = step + 1
            /\ qpc' = "permit"
            /\ UNCHANGED opc
       ELSE /\ opc' = "final"
            /\ qpc' = "none"
            /\ UNCHANGED step

\* lines 385-407: the locations, the snapshot and the pre-flight check
run_comprehensive_analysis(L) ==
    /\ opc = "start"
    /\ pc[Orch] = "idle"
    /\ TakeSnapshot(Orch)
    /\ nloc' = L
    /\ startQuota' = ret'.quota
    /\ IF InsufficientQuota(ret'.quota, L)
       THEN /\ opc' = "aborted"
            /\ UNCHANGED <<step, qpc>>
       ELSE /\ opc' = "run"
            /\ step' = 1
            /\ qpc' = "permit"
    /\ UNCHANGED <<depth, cooldownUntil, response, results, actual_requests_used, planPermits,
                   planRequests, callRequests, exhaustedAt, attemptsAfter, events>>
    /\ othersDuring' = (\E t \in Threads \ {Orch} : pc[t] # "idle")

\* query_groq, line 128 (and 166-168 when it raises): wait_if_needed is
\* called and raises, starts to sleep, or returns
query_groq_acquire ==
    /\ opc = "run"
    /\ qpc = "permit"
    /\ pc[Orch] = "idle"
    /\ Acquire(Orch)
    /\ attemptsAfter' = IF exhaustedAt # 0 THEN attemptsAfter + 1 ELSE attemptsAfter
    /\ response' = NoResponse
    /\ IF pc'[Orch] = "sleep"
       THEN UNCHANGED <<opc, step, qpc, depth, results, planPermits, exhaustedAt>>
       ELSE IF ret'.kind = "exhausted"
       THEN /\ exhaustedAt' = IF exhaustedAt = 0 THEN step ELSE exhaustedAt
            /\ FinishStep("error_quota")
            /\ UNCHANGED planPermits
       ELSE /\ planPermits' = planPermits + 1
            /\ qpc' = "quota"
            /\ UNCHANGED <<opc, step, depth, results, exhaustedAt>>
    /\ UNCHANGED <<nloc, cooldownUntil, startQuota, actual_requests_used,
                   planRequests, callRequests, events,
                   othersDuring>>

\* query_groq, line 128: wait_if_needed returns after its sleep
query_groq_resume ==
    /\ opc = "run"
    /\ qpc = "permit"
    /\ Resume(Orch)
    /\ planPermits' = planPermits + 1
    /\ qpc' = "quota"
    /\ UNCHANGED <<opc, nloc, step, depth, cooldownUntil, response, results, startQuota,
                   actual_requests_used, planRequests, callRequests, exhaustedAt,
                   attemptsAfter, events,
                   othersDuring>>

\* query_groq, lines 131-168: the quota is logged, the request is posted and
\* answered
query_groq_post ==
    /\ opc = "run"
    /\ qpc = "quota"
    /\ pc[Orch] = "idle"
    /\ TakeSnapshot(Orch)
    /\ planRequests' = planRequests + 1
    /\ callRequests' = IF depth = 0 THEN 1 ELSE callRequests + 1
    /\ \E r \in Responses :
         /\ r # HttpOk => events < MaxEvents
         /\ events' = IF r = HttpOk THEN events ELSE events + 1
         /\ response' = r
         /\ IF RetryOn(r)
            THEN /\ qpc' = "cooldown"
                 /\ cooldownUntil' = clock + CooldownSecs
                 /\ UNCHANGED <<opc, step, depth, results>>
            ELSE /\ FinishStep(IF r = HttpOk THEN "text"
                               ELSE IF r = PostRaises THEN "error_network"
                               ELSE "error_http")
                 /\ UNCHANGED cooldownUntil
    /\ UNCHANGED <<nloc, startQuota, actual_requests_used, planPermits, exhaustedAt,
                   attemptsAfter, othersDuring>>

\* line 161: where the retry enters query_groq
RetryEntrySkipsPermit == "quota"
RetryEntry == "permit"

\* query_groq, lines 160-161: time.sleep(60) returns and query_groq calls itself
query_groq_retry ==
    /\ opc = "run"
    /\ qpc = "cooldown"
    /\ clock' = Max(clock, cooldownUntil)
    /\ depth' = depth + 1
    /\ cooldownUntil' = 0
    /\ qpc' = RetryEntry
    /\ UNCHANGED <<ticks, requests_per_minute, requests_per_day, minute_requests,
                   daily_requests, lock, pc, now, wakeAt, seenLen, ret, lastGrant,
                   completions>>
    /\ UNCHANGED <<opc, nloc, step, response, results, startQuota, actual_requests_used,
                   planPermits, planRequests, callRequests, exhaustedAt,
                   attemptsAfter, events,
                   othersDuring>>

\* lines 434-439: the final quota check
FinalQuota ==
    /\ opc = "final"
    /\ pc[Orch] = "idle"
    /\ TakeSnapshot(Orch)
    /\ actual_requests_used' = startQuota.daily_used - ret'.quota.daily_used
    /\ opc' = "done"
    /\ UNCHANGED <<nloc, step, qpc, depth, cooldownUntil, response, results, startQuota,
                   planPermits, planRequests, callRequests, exhaustedAt,
                   attemptsAfter, events,
                   othersDuring>>

\* the plan's environment: another thread asks for a permit
OtherCallWait(t) ==
    /\ events < MaxEvents
    /\ events' = events + 1
    /\ Call(t, "wantW")
    /\ UNCHANGED <<opc, nloc, step, qpc, depth, cooldownUntil, response, results, startQuota,
                   actual_requests_used, planPermits, planRequests, callRequests,
                   exhaustedAt, attemptsAfter>>
    /\ othersDuring' = (othersDuring \/ opc \in {"run", "final"})

\* the plan's environment: more than a day goes by
NextDay ==
    /\ events < MaxEvents
    /\ events' = events + 1
    /\ Advance(DaySecs + BufferSecs)
    /\ UNCHANGED <<opc, nloc, step, qpc, depth, cooldownUntil, response, results, startQuota,
                   actual_requests_used, planPermits, planRequests, callRequests,
                   exhaustedAt, attemptsAfter, othersDuring>>

InitPlan ==
    /\ requests_per_minute \in 1..MaxRPM
    /\ requests_per_day \in EstimatedRequests(0)..EstimatedRequests(MaxLocations)
    /\ InitGovernor
    /\ InitPlanVars

NextPlan ==
    \/ \E L \in 0..MaxLocations : run_comprehensive_analysis(L)
    \/ query_groq_acquire
    \/ query_groq_resume
    \/ query_groq_post
    \/ query_groq_retry
    \/ FinalQuota
    \/ \E t \in Threads \ {Orch} : OtherCallWait(t)
    \/ \E t \in Threads \ {Orch} : wait_if_needed(t)
    \/ \E t \in Threads \ {Orch} : wait_if_needed_resume(t)
    \/ NextDay

SpecPlan == InitPlan /\ [][NextPlan]_vars

\* ------------------------------------------------------------ properties

\* C1: no requests_per_minute + 1 permit acquisitions return to their callers
\* within one sliding window of 60 seconds.
C1_NoBurstInWindow ==
    \A i, j \in 1..Len(completions) :
        j - i >= requests_per_minute =>
            completions[j] - completions[i] >= MinuteSecs

\* C2: the day window never holds more than requests_per_day timestamps, and
\* every snapshot reports daily_used <= requests_per_day and
\* daily_remaining >= 0.
C2_DailyCap ==
    /\ Len(daily_requests) <= requests_per_day
    /\ ret.kind = "snapshot" =>
         /\ ret.quota.daily_used <= requests_per_day
         /\ ret.quota.daily_remaining >= 0

C2_Witness ==
    /\ Len(daily_requests) = requests_per_day
    /\ lastGrant.slept
    /\ ret.kind = "snapshot"
    /\ ret.quota.daily_remaining = 0

\* C3: right after a permit is granted the minute window holds at most
\* requests_per_minute timestamps, also when the grant followed a wait.
C3_MinuteCapAfterGrant ==
    lastGrant.thread # NoThread => lastGrant.minuteAfter <= requests_per_minute

\* C4: a caller suspended inside wait_if_needed does not hold the lock, so a
\* get_remaining_quota issued meanwhile is not kept waiting for it.
C4_SleepsWithoutLock ==
    \A t \in Threads : pc[t] = "sleep" => lock # t

\* C5: prune-check-record of one caller is atomic with respect to the other
\* callers: at most one caller is between its check and its record, the
\* windows it checked are the windows it records into, each grant adds
\* exactly one timestamp to each window, the last daily slot is granted once,
\* and a grant made without waiting leaves the minute window within its cap.
C5_AtomicCheckAndRecord ==
    /\ Cardinality({t \in Threads : pc[t] = "sleep"}) <= 1
    /\ \A t \in Threads :
         pc[t] = "sleep" =>
             /\ lock = t
             /\ seenLen[t] = <<Len(minute_requests), Len(daily_requests)>>
             /\ Len(daily_requests) < requests_per_day
    /\ lastGrant.thread # NoThread =>
         /\ lastGrant.minuteAfter = lastGrant.minuteBefore + 1
         /\ lastGrant.dayAfter = lastGrant.dayBefore + 1
         /\ lastGrant.dayAfter <= requests_per_day
         /\ ~lastGrant.slept => lastGrant.minuteAfter <= requests_per_minute

C5_Witness ==
    /\ lastGrant.slept
    /\ lastGrant.dayAfter = requests_per_day
    /\ \E t \in Threads \ {lastGrant.thread} : pc[t] = "wantW"

\* C6: a wait_if_needed that finds requests_per_day timestamps younger than
\* one day raises quota-exhausted at once, without sleeping and without the
\* clock moving, also when the minute window is full.
C6_DailyCheckBeforeWait ==
    [][\A t \in Threads :
         (/\ pc[t] = "wantW"
          /\ pc'[t] # "wantW"
          /\ Len(PruneDay(daily_requests, clock)) >= requests_per_day)
         => (/\ pc'[t] = "idle"
             /\ ret' = [thread |-> t, kind |-> "exhausted", quota |-> NoQuota]
             /\ clock' = clock
             /\ lock' = lock)]_vars

C6_Witness ==
    /\ ret.kind = "exhausted"
    /\ Len(PruneDay(daily_requests, clock)) >= requests_per_day
    /\ Len(PruneMinute(minute_requests, clock)) >= requests_per_minute

\* C7: once a call of the plan has failed on quota exhaustion, no later step
\* of the plan attempts a permit acquisition.
C7_ExhaustionEndsPlan == attemptsAfter = 0

\* C8: one query_groq call posts at most two requests.
C8_AtMostOneRetry == callRequests <= 2

\* C9: a plan whose pre-flight snapshot reports daily_remaining below the
\* estimate is aborted, having acquired no permit and posted no request.
C9_PreflightAbort ==
    (opc # "start" /\ startQuota.daily_remaining < EstimatedRequests(nloc))
    => /\ opc = "aborted"
       /\ qpc = "none"
       /\ step = 0
       /\ planPermits = 0
       /\ planRequests = 0
       /\ pc[Orch] = "idle"

C9_Witness ==
    /\ opc = "aborted"
    /\ startQuota.daily_remaining < EstimatedRequests(nloc)
    /\ startQuota.daily_remaining > 0

\* C10: the timestamp recorded for a permit is the instant at which the
\* permit was granted, also when the caller was suspended first.
C10_StampIsGrantInstant ==
    lastGrant.thread # NoThread => lastGrant.lag = 0

\* C11: when requests_per_minute + 1 permit requests arrive at t=0 (with the
\* daily quota out of the way), the first requests_per_minute are granted at
\* t=0 without waiting; the last one is suspended for exactly
\* oldest timestamp + 1 minute + 1 second - now = 61 seconds and is granted
\* no earlier than t=61 (at t=61 when nothing else moves the clock).
C11_BurstLastWaits ==
    /\ \A t \in Threads :
         (/\ pc[t] = "sleep"
          /\ now[t] = 0
          /\ minute_requests = [i \in 1..requests_per_minute |-> 0])
         => wakeAt[t] - now[t] = MinuteSecs + BufferSecs
    /\ (/\ lastGrant.thread # NoThread
        /\ Len(daily_requests) = lastGrant.dayAfter
        /\ \A i \in 1..Len(daily_requests) : daily_requests[i] = 0)
       => /\ lastGrant.dayAfter <= requests_per_minute =>
               (~lastGrant.slept /\ lastGrant.lag = 0)
          /\ lastGrant.dayAfter = requests_per_minute + 1 =>
               /\ lastGrant.slept
               /\ lastGrant.lag >= MinuteSecs + BufferSecs
               /\ ticks = 0 => lastGrant.lag = MinuteSecs + BufferSecs

C11_Witness ==
    /\ lastGrant.slept
    /\ lastGrant.dayAfter = requests_per_minute + 1
    /\ daily_requests = [i \in 1..(requests_per_minute + 1) |-> 0]
    /\ lastGrant.lag = MinuteSecs + BufferSecs
    /\ clock = MinuteSecs + BufferSecs

\* C12: a get_remaining_quota made 61 seconds or more after a timestamp was
\* recorded does not count it in minute_used, and one made up to 23 hours
\* after it was recorded still counts it in daily_used.
C12_PruneByAge ==
    [][\A t \in Threads :
         (pc[t] = "wantQ" /\ pc'[t] = "idle")
         => /\ ret'.quota.minute_used <=
                 Cardinality({i \in 1..Len(minute_requests) :
                                clock - minute_requests[i] < MinuteSecs + BufferSecs})
            /\ ret'.quota.daily_used >=
                 Cardinality({i \in 1..Len(daily_requests) :
                                clock - daily_requests[i] <= LongStayHours * 3600})]_vars

C12_Witness ==
    /\ ret.kind = "snapshot"
    /\ ret.quota.minute_used = 0
    /\ ret.quota.daily_used >= 1
    /\ \E i \in 1..Len(daily_requests) :
         clock - daily_requests[i] = LongStayHours * 3600

\* C13: get_remaining_quota adds no timestamp and removes only expired ones:
\* after it each window holds exactly its former entries that are not older
\* than the window's length, and the counts returned add up to the limits.
C13_SnapshotOnlyPrunes ==
    [][\A t \in Threads :
         (pc[t] = "wantQ" /\ pc'[t] = "idle")
         => /\ minute_requests' =
                 SelectSeq(minute_requests, LAMBDA x : clock - x <= MinuteSecs)
            /\ daily_requests' =
                 SelectSeq(daily_requests, LAMBDA x : clock - x <= DaySecs)
            /\ ret'.kind = "snapshot"
            /\ ret'.quota.minute_used = Len(minute_requests')
            /\ ret'.quota.daily_used = Len(daily_requests')
            /\ ret'.quota.minute_used + ret'.quota.minute_remaining
                 = requests_per_minute
            /\ ret'.quota.daily_used + ret'.quota.daily_remaining
                 = requests_per_day]_vars

C13_Witness ==
    /\ ret.kind = "snapshot"
    /\ minute_requests = <<>>
    /\ ret.quota.minute_remaining = requests_per_minute
    /\ ret.quota.daily_used >= 1
    /\ Len(daily_requests) = ret.quota.daily_used
    /\ \A i \in 1..Len(daily_requests) :
         /\ clock - daily_requests[i] > MinuteSecs
         /\ clock - daily_requests[i] <= DaySecs

\* C14: a response other than 200 and 429, or a network error, is not
\* retried and does not leave query_groq as an exception: its error text is
\* stored in the slot of the step that made the call, the plan goes on with
\* its next step, and a plan ends only with a slot filled for every step.
C14_FailureStoredPlanGoesOn ==
    /\ response \in {HttpOther, PostRaises} =>
         /\ results # <<>>
         /\ results[Len(results)] =
              (IF response = PostRaises THEN "error_network" ELSE "error_http")
         /\ qpc \in {"permit", "none"}
         /\ depth = 0
         /\ opc \in {"run", "final", "done"}
         /\ opc = "run" => (qpc = "permit" /\ step = Len(results) + 1)
    /\ opc = "run" => (Len(results) = step - 1 /\ step <= Len(PlanSteps(nloc)))
    /\ opc \in {"final", "done"} => Len(results) = Len(PlanSteps(nloc))
    /\ opc \in {"start", "aborted"} => results = <<>>

C14_Witness ==
    /\ opc = "done"
    /\ \E i, j \in 1..Len(results) :
         /\ i < j
         /\ results[i] = "error_http"
         /\ results[j] = "error_network"
    /\ results[Len(results)] = "text"

\* C15: every request posted, first attempt or retry, follows a permit of
\* its own: the permits granted to the plan are the requests it has posted,
\* plus one while a granted permit waits for its request to be posted.
C15_PermitPerRequest ==
    /\ planRequests <= planPermits
    /\ planPermits = planRequests + (IF qpc = "quota" THEN 1 ELSE 0)

C15_Witness ==
    /\ depth >= 1
    /\ qpc = "cooldown"
    /\ callRequests = 2
    /\ planPermits = planRequests
    /\ lastGrant.thread = Orch
    /\ lastGrant.slept

C17_FreshSnapshot ==
    (ret.kind = "snapshot" /\ lastGrant.thread = NoThread)
    => ret.quota = [minute_remaining |-> requests_per_minute,
                    daily_remaining |-> requests_per_day,
                    minute_used |-> 0,
                    daily_used |-> 0]

C17_Witness ==
    /\ ret.kind = "snapshot"
    /\ lastGrant.thread = NoThread
    /\ daily_requests = <<>>
    /\ requests_per_minute # requests_per_day
    /\ ret.quota.minute_remaining = requests_per_minute
    /\ ret.quota.daily_remaining = requests_per_day

\* C18: under fair scheduling every call of wait_if_needed and of
\* get_remaining_quota eventually returns, whatever the other callers do:
\* none stays blocked on the lock or behind another caller's sleep.
C18_EveryCallReturns ==
    \A t \in Threads : (pc[t] # "idle") ~> (pc[t] = "idle")

C18_Witness ==
    \E t, u \in Threads :
        /\ pc[t] = "sleep"
        /\ lock = t
        /\ pc[u] = "wantQ"

\* C19: the cooldown sleeps of one query_groq call are bounded by a number
\* that does not depend on requests_per_day, the single retry of line 161,
\* also when the server answers 429 every time.
C19_CooldownsBoundedApartFromQuota == depth <= 1

\* C20: both windows are in non-decreasing order of timestamp and the minute
\* window is a suffix of the day window, so every snapshot has
\* minute_used <= daily_used; also while a caller sleeps and after it.
C20_MinuteSuffixOfDay ==
    /\ \A i \in 1..(Len(daily_requests) - 1) :
         daily_requests[i] <= daily_requests[i + 1]
    /\ \A i \in 1..(Len(minute_requests) - 1) :
         minute_requests[i] <= minute_requests[i + 1]
    /\ Len(minute_requests) <= Len(daily_requests)
    /\ minute_requests =
         SubSeq(daily_requests,
                Len(daily_requests) - Len(minute_requests) + 1,
                Len(daily_requests))
    /\ ret.kind = "snapshot" => ret.quota.minute_used <= ret.quota.daily_used

C20_Witness ==
    /\ ticks = 0
    /\ ret.kind = "snapshot"
    /\ ret.quota.minute_used >= 1
    /\ ret.quota.minute_used < ret.quota.daily_used
    /\ Len(minute_requests) = ret.quota.minute_used
    /\ Len(daily_requests) = ret.quota.daily_used
    /\ daily_requests[1] < daily_requests[Len(daily_requests)]

\* C21: a wait_if_needed that raises quota-exhausted records nothing: after
\* it each window holds exactly its former entries that have not expired,
\* and no permit has been granted.
C21_RefusalRecordsNothing ==
    [][\A t \in Threads :
         (pc[t] = "wantW" /\ pc'[t] = "idle" /\ ret'.kind = "exhausted")
         => /\ minute_requests' =
                 SelectSeq(minute_requests, LAMBDA x : clock - x <= MinuteSecs)
            /\ daily_requests' =
                 SelectSeq(daily_requests, LAMBDA x : clock - x <= DaySecs)
            /\ Len(daily_requests') = requests_per_day
            /\ lastGrant' = lastGrant
            /\ completions' = completions
            /\ lock' = lock]_vars

C21_Witness ==
    /\ ret.kind = "exhausted"
    /\ Len(daily_requests) = requests_per_day
    /\ Len(minute_requests) < Len(daily_requests)
    /\ Len(minute_requests) >= 1
    /\ \A i \in 1..Len(minute_requests) : clock - minute_requests[i] <= MinuteSecs

\* C22: a plan that has passed the pre-flight check, with no 429 answered
\* and no other caller on the governor during the plan, has no call refused
\* for quota exhaustion; it is granted one permit per step, L + 4 in all
\* when there are L >= 1 locations, which is within the estimate L + 5.
C22_PassedPlanNeverRefused ==
    (/\ opc \in {"run", "final", "done"}
     /\ ~othersDuring
     /\ qpc # "cooldown"
     /\ planRequests =
          Cardinality({i \in 1..Len(results) : results[i] # "error_quota"}))
    => /\ \A i \in 1..Len(results) : results[i] # "error_quota"
       /\ exhaustedAt = 0
       /\ planPermits <= Len(PlanSteps(nloc))
       /\ opc \in {"final", "done"} => planPermits = Len(PlanSteps(nloc))
       /\ nloc >= 1 =>
            /\ Len(PlanSteps(nloc)) = nloc + 4
            /\ nloc + 4 <= EstimatedRequests(nloc)
            /\ startQuota.daily_remaining >= nloc + 4

C22_Witness ==
    /\ opc = "done"
    /\ ~othersDuring
    /\ nloc >= 1
    /\ startQuota.daily_remaining = EstimatedRequests(nloc)
    /\ planRequests = planPermits
    /\ planPermits = nloc + 4
    /\ \E i \in 1..Len(results) : results[i] = "error_http"
    /\ \A i \in 1..Len(results) : results[i] # "error_quota"

\* C23: when a plan completes, with no day-window entry expired and no other
\* caller on the governor during the plan, the actual_requests_used it
\* reports is the number of permits granted to the plan, which is not
\* negative.
C23_ReportedUsageIsPermits ==
    (opc = "done" /\ ~othersDuring /\ ticks = 0)
    => /\ actual_requests_used = planPermits
       /\ actual_requests_used >= 0

\* C24: a wait_if_needed that finds the minute window full after pruning
\* (and the day window not full) always suspends its caller, for a time that
\* is more than 0 and at most 61 seconds.
C24_FullWindowWaitWithinBounds ==
    [][\A t \in Threads :
         (/\ pc[t] = "wantW"
          /\ pc'[t] # "wantW"
          /\ Cardinality({i \in 1..Len(minute_requests) :
                            clock - minute_requests[i] <= MinuteSecs})
               >= requests_per_minute
          /\ Cardinality({i \in 1..Len(daily_requests) :
                            clock - daily_requests[i] <= DaySecs})
               < requests_per_day)
         => (/\ pc'[t] = "sleep"
             /\ lock' = t
             /\ clock' = clock
             /\ wakeAt'[t] - clock > 0
             /\ wakeAt'[t] - clock <= MinuteSecs + BufferSecs)]_vars

C24_Witness ==
    \E t \in Threads :
        /\ pc[t] = "sleep"
        /\ wakeAt[t] - now[t] = BufferSecs
        /\ Len(minute_requests) >= requests_per_minute
        /\ clock - minute_requests[1] = MinuteSecs

\* C25: daily exhaustion ends by itself: a wait_if_needed made when the day
\* window is full but its oldest timestamp is more than one day old is not
\* refused; it is granted, after the per-minute wait if there is one, by the
\* same governor with the same limits.
C25_ExhaustionExpires ==
    [][\A t \in Threads :
         (/\ pc[t] = "wantW"
          /\ pc'[t] # "wantW"
          /\ Len(daily_requests) >= 1
          /\ Len(daily_requests) <= requests_per_day
          /\ clock - daily_requests[1] > DaySecs)
         => /\ \/ pc'[t] = "sleep"
               \/ /\ pc'[t] = "idle"
                  /\ ret' = [thread |-> t, kind |-> "granted", quota |-> NoQuota]
                  /\ daily_requests'[Len(daily_requests')] = clock
            /\ Len(daily_requests') <= requests_per_day
            /\ requests_per_day' = requests_per_day
            /\ requests_per_minute' = requests_per_minute]_vars

C25_Witness ==
    /\ ret.kind = "granted"
    /\ lastGrant.afterRefusal
    /\ lastGrant.thread = ret.thread
    /\ clock > DaySecs
    /\ daily_requests # <<>>
    /\ daily_requests[Len(daily_requests)] = clock

====
